---- MODULE Spec2Model ----
(***************************************************************************)
(* crud-route-builder: buildRoutes(Resource, args) assembles an express    *)
(* router with the caller's extension routes followed by five default CRUD *)
(* routes, each a chain before-middleware -> action -> after-middleware.   *)
(*                                                                         *)
(* The repository holds four near-duplicate implementations of buildRoutes *)
(* (src/index.js with src/helpers.js, and src/unnamed/part_000, part_001,  *)
(* part_002).  The variable impl says which of them is loaded.             *)
(*                                                                         *)
(* express (the router) and mongoose (the data handle) are libraries: the  *)
(* router is modelled by what express 4 does with the registered handlers  *)
(* (first matching route first, next() moves on, next(err) leaves the      *)
(* router), the data handle by the outcome of its promise (resolved with   *)
(* some data, or rejected with a message), which is an input; where the   *)
(* contents of the collection matter (SpecStore) the promise resolves with *)
(* what the collection holds.                                              *)
(***************************************************************************)
EXTENDS Integers, Sequences, FiniteSets, TLC

VARIABLES
    impl,     \* the implementation file that is loaded
    args,     \* the args of the buildRoutes call (extensions, before, after, resourceModifier)
    built,    \* "no", "returned", or what buildRoutes threw
    router,   \* the stack of the router buildRoutes registers on: routes in registration order
    req,      \* the request in flight (req, res and the position in the chain)
    other,    \* a second request in flight at the same router
    again,    \* a later buildRoutes call: its args, its outcome, the router it returned
    call,     \* a direct call of extractMiddleware: its arguments and what it returned
    store,    \* the documents of the collection behind the data handle
    done      \* the requests answered so far, oldest first

vars == <<impl, args, built, router, req, other, again, call, store, done>>

(***************************************************************************)
(* Bounds                                                                  *)
(***************************************************************************)
\* Largest number of documents a List query resolves with.
MaxDocs == 12
\* Largest total number of descriptors in extensions, before and after together
\* in the systematically enumerated configurations.
MaxDescs == 3
\* Largest number of requests answered one after the other on one collection.
MaxRequests == 5

(***************************************************************************)
(* JavaScript values of descriptor fields: a type tag and a payload.       *)
(***************************************************************************)
Str(s) == [t |-> "string", v |-> s]
Num(s) == [t |-> "number", v |-> s]
Fn(name) == [t |-> "function", v |-> name]
Undefined == [t |-> "undefined", v |-> ""]
\* a function of another class ("AsyncFunction" for an async function,
\* "GeneratorFunction" for a generator function): typeof is "function" as well,
\* the class Object.prototype.toString reports is its own
ClassFn(name, class) == [t |-> "function", v |-> name, class |-> class]
\* a String object (new String(s)): ref tells one object from another
StrObj(s, ref) == [t |-> "String", v |-> s, ref |-> ref]

\* {}.toString.call(x) without the enclosing "[object " and "]"
ToStringTag(x) ==
    IF "class" \in DOMAIN x THEN x.class
    ELSE IF "t" \notin DOMAIN x THEN "Object"
    ELSE CASE x.t = "function"  -> "Function"
           [] x.t = "array"     -> "Array"
           [] x.t = "string"    -> "String"
           [] x.t = "String"    -> "String"
           [] x.t = "number"    -> "Number"
           [] x.t = "undefined" -> "Undefined"
           [] OTHER             -> "Object"

\* typeof x: "function" for a function of any class, the name of the type for
\* a primitive, "object" for everything else (a String object, an array, a
\* descriptor, which carries no type tag)
TypeOf(x) ==
    IF "t" \in DOMAIN x /\ x.t \in {"function", "string", "number", "undefined"}
    THEN x.t
    ELSE "object"

\* a === b: primitives by type and value, objects by identity
StrictEquals(a, b) ==
    IF a.t = "String" \/ b.t = "String"
    THEN a.t = "String" /\ b.t = "String" /\ a.ref = b.ref
    ELSE a = b

\* if (x): undefined, "" and 0 are falsy
Truthy(x) ==
    /\ x.t # "undefined"
    /\ ~(x.t = "string" /\ x.v = "")
    /\ ~(x.t = "number" /\ x.v = "0")

Impls == {"index.js", "part_000", "part_001", "part_002"}
\* the implementations built on helpers.js (extractMiddleware returning one
\* function, sendCrbResult)
CrbImpls == {"index.js", "part_001"}

allowedMethods == <<"get", "post", "put", "delete">>

Route(method, route, func) == [method |-> method, route |-> route, function |-> func]

\* functionToCheck && {}.toString.call(functionToCheck) === '[object Function]'
isFunction(functionToCheck) ==
    Truthy(functionToCheck) /\ ToStringTag(functionToCheck) = "Function"

emptyMiddleware == Fn("emptyMiddleware")

\* allowedMethods.indexOf(r.method) === -1 || !(typeof r.route === 'string'
\* || r.route instanceof String) || !isFunction(r.function)
InvalidRoute(r) ==
    \/ ~(r.method.t = "string" /\ \E i \in 1..Len(allowedMethods) : allowedMethods[i] = r.method.v)
    \/ ~(TypeOf(r.route) = "string" \/ r.route.t = "String")
    \/ ~isFunction(r.function)

\* TRUE when validateRoutes(routes) throws "Invalid Route object"
validateRoutes(routes) == \E i \in 1..Len(routes) : InvalidRoute(routes[i])

MatchingRoutes(routes, method, route) ==
    SelectSeq(routes, LAMBDA r : StrictEquals(r.method, method) /\ StrictEquals(r.route, route))

\* variant: descriptors are matched on the method alone
extractMiddlewareMethodOnly(routes, method, route) ==
    LET middleware == SelectSeq(routes, LAMBDA r : r.method = method)
    IN  IF Len(middleware) > 0 THEN middleware[1].function ELSE emptyMiddleware
\* helpers.js: the function of the first matching descriptor, or emptyMiddleware
extractMiddleware(routes, method, route) ==
    LET middleware == MatchingRoutes(routes, method, route)
    IN  IF Len(middleware) > 0 THEN middleware[1].function ELSE emptyMiddleware

\* part_002: every matching descriptor (the descriptor objects, not their functions)
extractMiddlewareAll(routes, method, route) == MatchingRoutes(routes, method, route)

(***************************************************************************)
(* The default slots and their actions.  A default action is a closure:    *)
(* v names the action, after is the after-middleware it captured (the      *)
(* third argument of sendCrbResult); the implementations without           *)
(* sendCrbResult capture nothing.                                          *)
(***************************************************************************)
DefaultSlots ==
    << [method |-> "get",    route |-> "/all",        action |-> "getAll"],
       [method |-> "get",    route |-> "/single/:id", action |-> "getSingle"],
       [method |-> "put",    route |-> "/:id",        action |-> "update"],
       [method |-> "post",   route |-> "/",           action |-> "create"],
       [method |-> "delete", route |-> "/:id",        action |-> "remove"] >>

ActionNames == {DefaultSlots[i].action : i \in 1..Len(DefaultSlots)}

Action(name, afterMiddleware) == [t |-> "function", v |-> name, after |-> afterMiddleware]

IsAction(h) == h.t = "function" /\ h.v \in ActionNames

(***************************************************************************)
(* express: router[method](path, ...handlers) flattens the handlers and    *)
(* throws a TypeError when one of them is not a function; otherwise it     *)
(* appends one route to the router's stack.                                *)
(***************************************************************************)
Registration(method, path, handlers) == [method |-> method, path |-> path, stack |-> handlers]

\* the index of the first registration express rejects, 0 when there is none
FirstRejected(regs) ==
    LET bad == {i \in 1..Len(regs) :
                    \E k \in 1..Len(regs[i].stack) : TypeOf(regs[i].stack[k]) # "function"}
    IN  IF bad = {} THEN 0 ELSE CHOOSE i \in bad : \A j \in bad : i <= j

\* the registrations of a buildRoutes call applied in order to a router stack
RegisterAll(stack, regs) ==
    LET bad == FirstRejected(regs)
    IN  IF bad = 0
        THEN [thrown |-> "none", stack |-> stack \o regs]
        ELSE [thrown |-> "TypeError", stack |-> stack \o SubSeq(regs, 1, bad - 1)]

(***************************************************************************)
(* buildRoutes, one definition per implementation                          *)
(***************************************************************************)
\* index.js 71-74, part_001 234-237: every extension, wrapped in its own before/after
ExtensionChains(a) ==
    [i \in 1..Len(a.extensions) |->
        LET ex == a.extensions[i]
        IN  Registration(ex.method.v, ex.route.v,
                << extractMiddleware(a.before, ex.method, ex.route),
                   ex.function,
                   extractMiddleware(a.after, ex.method, ex.route) >>)]

\* variant: the action of a default slot is registered ahead of its before-handler
DefaultChainsActionFirst(a) ==
    [i \in 1..Len(DefaultSlots) |->
        LET s == DefaultSlots[i]
            afterMiddleware == extractMiddleware(a.after, Str(s.method), Str(s.route))
        IN  Registration(s.method, s.route,
                << Action(s.action, afterMiddleware),
                   extractMiddleware(a.before, Str(s.method), Str(s.route)),
                   afterMiddleware >>)]
\* variant: the before and after handlers of a default slot change places
DefaultChainsSwapped(a) ==
    [i \in 1..Len(DefaultSlots) |->
        LET s == DefaultSlots[i]
            afterMiddleware == extractMiddleware(a.after, Str(s.method), Str(s.route))
        IN  Registration(s.method, s.route,
                << afterMiddleware,
                   Action(s.action, afterMiddleware),
                   extractMiddleware(a.before, Str(s.method), Str(s.route)) >>)]
\* index.js 87-212, part_001 239-252: the five default slots
DefaultChains(a) ==
    [i \in 1..Len(DefaultSlots) |->
        LET s == DefaultSlots[i]
            afterMiddleware == extractMiddleware(a.after, Str(s.method), Str(s.route))
        IN  Registration(s.method, s.route,
                << extractMiddleware(a.before, Str(s.method), Str(s.route)),
                   Action(s.action, afterMiddleware),
                   afterMiddleware >>)]

\* variant: the defaults are registered ahead of the extensions
RegistrationsDefaultsFirst(a) == DefaultChains(a) \o ExtensionChains(a)
\* index.js 68-74 then 87-212: the extensions are registered ahead of the defaults
Registrations(a) == ExtensionChains(a) \o DefaultChains(a)

\* variant: the after list is not validated
buildRoutesNoAfterCheck(a) ==
    IF validateRoutes(a.extensions) \/ validateRoutes(a.before)
    THEN [thrown |-> "Invalid Route object", stack |-> << >>]
    ELSE RegisterAll(<< >>, Registrations(a))
\* index.js 57-215 and part_001 220-255: validate the three lists, then register
\* the extensions and then the defaults on a router of this call's own
buildRoutesIndex(a) ==
    IF validateRoutes(a.extensions) \/ validateRoutes(a.before) \/ validateRoutes(a.after)
    THEN [thrown |-> "Invalid Route object", stack |-> << >>]
    ELSE RegisterAll(<< >>, Registrations(a))

\* part_002 84-91: an extension is registered when its three fields are truthy
\* and its method is allowed; nothing is validated
Registrable(ex) ==
    /\ Truthy(ex.method) /\ Truthy(ex.route) /\ Truthy(ex.function)
    /\ ex.method.t = "string"
    /\ \E i \in 1..Len(allowedMethods) : allowedMethods[i] = ex.method.v

\* part_002 74-229: the stages before and after the action are the arrays of
\* matching descriptors; DELETE /:id resolves its third stage from `before`
buildRoutes002(a) ==
    LET exts == SelectSeq(a.extensions, Registrable)
        extRegs == [i \in 1..Len(exts) |->
            Registration(exts[i].method.v, exts[i].route.v,
                extractMiddlewareAll(a.before, exts[i].method, exts[i].route)
                \o << exts[i].function >>
                \o extractMiddlewareAll(a.after, exts[i].method, exts[i].route))]
        defRegs == [i \in 1..Len(DefaultSlots) |->
            LET s == DefaultSlots[i]
            IN  Registration(s.method, s.route,
                    extractMiddlewareAll(a.before, Str(s.method), Str(s.route))
                    \o << Action(s.action, Undefined) >>
                    \o extractMiddlewareAll(IF s.action = "remove" THEN a.before ELSE a.after,
                                            Str(s.method), Str(s.route)))]
    IN  RegisterAll(<< >>, extRegs \o defRegs)

\* part_000 36-182: buildRoutes(Resource, Extensions); no before, no after
buildRoutes000(a) ==
    LET exts == SelectSeq(a.extensions, Registrable)
        extRegs == [i \in 1..Len(exts) |->
            Registration(exts[i].method.v, exts[i].route.v, << exts[i].function >>)]
        defRegs == [i \in 1..Len(DefaultSlots) |->
            Registration(DefaultSlots[i].method, DefaultSlots[i].route,
                         << Action(DefaultSlots[i].action, Undefined) >>)]
    IN  RegisterAll(<< >>, extRegs \o defRegs)

buildRoutes(i, a) ==
    CASE i \in CrbImpls -> buildRoutesIndex(a)
      [] i = "part_002" -> buildRoutes002(a)
      [] i = "part_000" -> buildRoutes000(a)

(***************************************************************************)
(* Strings of the query string are sequences of one-character strings, so  *)
(* that Number(val), val.toLowerCase() and new RegExp(val) are computed    *)
(* from the characters.  The alphabet is: decimal digits, the letters a-z  *)
(* and A-Z, the space, tab, line feed, carriage return and form feed, the  *)
(* signs + and -, the decimal point, and the parentheses.                  *)
(***************************************************************************)
Digits == <<"0", "1", "2", "3", "4", "5", "6", "7", "8", "9">>
UpperCase == <<"A", "B", "C", "D", "E", "F", "G", "H", "I", "J", "K", "L", "M",
               "N", "O", "P", "Q", "R", "S", "T", "U", "V", "W", "X", "Y", "Z">>
LowerCase == <<"a", "b", "c", "d", "e", "f", "g", "h", "i", "j", "k", "l", "m",
               "n", "o", "p", "q", "r", "s", "t", "u", "v", "w", "x", "y", "z">>

IsDigit(c) == \E i \in 1..Len(Digits) : Digits[i] = c
DigitValue(c) == (CHOOSE i \in 1..Len(Digits) : Digits[i] = c) - 1
AllDigits(s) == Len(s) > 0 /\ \A i \in 1..Len(s) : IsDigit(s[i])

\* String.prototype.toLowerCase
toLowerCase(s) ==
    [i \in 1..Len(s) |->
        IF \E k \in 1..Len(UpperCase) : UpperCase[k] = s[i]
        THEN LowerCase[CHOOSE k \in 1..Len(UpperCase) : UpperCase[k] = s[i]]
        ELSE s[i]]

\* the string without its leading and trailing white space
Trim(s) ==
    LET ink == {i \in 1..Len(s) : s[i] \notin {" ", "\t", "\n", "\r", "\f"}}
    IN  IF ink = {} THEN << >>
        ELSE SubSeq(s, CHOOSE i \in ink : \A j \in ink : i <= j,
                       CHOOSE i \in ink : \A j \in ink : j <= i)

(***************************************************************************)
(* Number values are IEEE 754 doubles.  An integer of magnitude below 2^31 *)
(* is Number(n); every other finite value is Double(neg, mant, exp), the   *)
(* value (-1)^neg * mant * 2^exp with mant odd, mant a natural number      *)
(* written as its sequence of decimal digits (most significant first,      *)
(* << >> is zero) because a double's mantissa has up to 53 bits.           *)
(***************************************************************************)
NaN == [t |-> "NaN"]
Infinity == [t |-> "Infinity"]
NegativeInfinity == [t |-> "-Infinity"]
Number(n) == [t |-> "number", n |-> n]
NegativeZero == [t |-> "number", n |-> 0, neg |-> TRUE]
Double(neg, mant, exp) == [t |-> "number", neg |-> neg, mant |-> mant, exp |-> exp]

\* arithmetic on digit sequences
StripZeros(ds) ==
    IF \A i \in 1..Len(ds) : ds[i] = 0 THEN << >>
    ELSE SubSeq(ds, CHOOSE i \in 1..Len(ds) : ds[i] # 0 /\ \A j \in 1..(i - 1) : ds[j] = 0,
                Len(ds))
DigitsOf(n) == StripZeros([i \in 1..10 |-> (n \div 10^(10 - i)) % 10])
RECURSIVE IntOf(_)
IntOf(ds) == IF ds = << >> THEN 0 ELSE 10 * IntOf(SubSeq(ds, 1, Len(ds) - 1)) + ds[Len(ds)]

\* ds * m + c, for m and c below 2^27; the low half is computed first and
\* its carry goes into the high half
RECURSIVE MulAddCarry(_, _, _)
MulAddCarry(ds, m, c) ==
    IF Len(ds) = 1
    THEN LET x == ds[1] * m + c IN [d |-> << x % 10 >>, c |-> x \div 10]
    ELSE LET h == Len(ds) \div 2
             lo == MulAddCarry(SubSeq(ds, h + 1, Len(ds)), m, c)
             hi == MulAddCarry(SubSeq(ds, 1, h), m, lo.c)
         IN  IF lo.c = 0 /\ m = 1 THEN [d |-> SubSeq(ds, 1, h) \o lo.d, c |-> 0]
             ELSE [d |-> hi.d \o lo.d, c |-> hi.c]
MulAdd(ds, m, c) ==
    IF ds = << >> THEN DigitsOf(c)
    ELSE LET r == MulAddCarry(ds, m, c) IN StripZeros(DigitsOf(r.c) \o r.d)

\* quotient and remainder of ds by m, for m up to 2^27; the high half is
\* computed first and its remainder goes into the low half
RECURSIVE DivRem(_, _, _)
DivRem(ds, m, r) ==
    IF ds = << >> THEN [q |-> << >>, r |-> r]
    ELSE IF Len(ds) = 1
    THEN LET x == r * 10 + ds[1] IN [q |-> << x \div m >>, r |-> x % m]
    ELSE LET h == Len(ds) \div 2
             hi == DivRem(SubSeq(ds, 1, h), m, r)
             lo == DivRem(SubSeq(ds, h + 1, Len(ds)), m, hi.r)
         IN  IF hi.r = 0 /\ m = 1 THEN [q |-> ds, r |-> 0]
             ELSE [q |-> hi.q \o lo.q, r |-> lo.r]
DivSmall(ds, m) ==
    LET stripped(x) == [q |-> StripZeros(x.q), r |-> x.r]
    IN  stripped(DivRem(ds, m, 0))

\* ds * 2^k, and the quotient of ds by 2^k with whether the division is inexact
RECURSIVE TimesPowerOfTwo(_, _)
TimesPowerOfTwo(ds, k) ==
    IF k <= 27 THEN MulAdd(ds, 2^k, 0)
    ELSE LET half == TimesPowerOfTwo(ds, k \div 2)
         IN  IF half = << >> THEN << >> ELSE TimesPowerOfTwo(half, k - (k \div 2))
RECURSIVE DivPowerOfTwo(_, _)
DivPowerOfTwo(ds, k) ==
    IF k <= 27
    THEN LET inexact(x) == [q |-> x.q, sticky |-> x.r # 0] IN inexact(DivSmall(ds, 2^k))
    ELSE LET a == DivPowerOfTwo(ds, k \div 2)
             b == DivPowerOfTwo(a.q, k - (k \div 2))
         IN  IF a.q = << >> THEN a ELSE [q |-> b.q, sticky |-> a.sticky \/ b.sticky]
\* the number of bits of ds, for ds below 2^108
RECURSIVE BitLength(_)
BitLength(ds) ==
    IF Len(ds) <= 8
    THEN LET bits(n) == CHOOSE L \in 0..27 : n < 2^L /\ (L = 0 \/ n >= 2^(L - 1))
         IN  bits(IntOf(ds))
    ELSE 27 + BitLength(DivSmall(ds, 2^27).q)

\* the value (-1)^neg * v.m * 2^v.e, v.m below 2^54, as a Number value: the
\* factors of two of v.m go into the exponent, up to 27 of them at a time
\* (twos: the largest t up to 27 with 2^t dividing ds)
Canonical(neg, v) ==
    LET low(r) == CHOOSE t \in 0..27 : r % 2^t = 0 /\ (t = 27 \/ r % 2^(t + 1) # 0)
        twos(ds) == low(DivSmall(ds, 2^27).r)
        shifted(w, t) == [m |-> DivSmall(w.m, 2^t).q, e |-> w.e + t]
        reduced(w) == shifted(w, twos(w.m))
        value(w, bits) ==
            IF bits + w.e > 1024 THEN (IF neg THEN NegativeInfinity ELSE Infinity)
            ELSE IF w.e >= 0 /\ bits + w.e <= 31
            THEN Number((IF neg THEN -1 ELSE 1) * IntOf(w.m) * 2^w.e)
            ELSE Double(neg, w.m, w.e)
        sized(w) == value(w, BitLength(w.m))
    IN  IF v.m = << >> THEN (IF neg THEN NegativeZero ELSE Number(0))
        ELSE sized(reduced(reduced(v)))

\* the double nearest to (-1)^neg * (d.q + f) * 2^e, ties to even, where
\* 0 <= f < 1 and d.sticky says whether f # 0; d.q is below 2^80 and has at
\* most 53 bits when nothing is to be dropped.  Below 2^-1022 the doubles are
\* 2^-1074 apart.
RoundToDouble(neg, d, e) ==
    LET dropped(bits) == IF bits - 53 >= -1074 - e THEN bits - 53 ELSE -1074 - e
        up(x, half) ==
            x.r > half \/ (x.r = half /\ (d.sticky \/ (x.q # << >> /\ x.q[Len(x.q)] % 2 = 1)))
        nearest(x, drop) ==
            [m |-> IF up(x, 2^(drop - 1)) THEN MulAdd(x.q, 1, 1) ELSE x.q, e |-> e + drop]
        rounded(drop) ==
            IF drop <= 0 THEN [m |-> d.q, e |-> e] ELSE nearest(DivSmall(d.q, 2^drop), drop)
    IN  Canonical(neg, rounded(dropped(BitLength(d.q))))

\* the double nearest to (-1)^neg * m * 10^dex, for a digit sequence m without
\* leading zeros and an integer dex.  An integer below 10^9 is a double and
\* is its own value.  Values of 10^309 and more are beyond
\* the largest double, values below 10^-330 round to zero.  In between the
\* value is scaled by 2^s, s chosen from the decimal magnitude so that the
\* integer part has 63 to 69 bits (s at most 1075), and rounded.
DecimalToDouble(neg, m, dex) ==
    LET p == Len(m) + dex
        zero == IF neg THEN NegativeZero ELSE Number(0)
        k == IF dex < 0 THEN -dex ELSE 0
        s0 == 64 - (((p - 1) * 332193) \div 100000)
        s == IF s0 > 1075 THEN 1075 ELSE s0
        a == IF dex > 0 THEN m \o [i \in 1..dex |-> 0] ELSE m
        cut(n1) ==
            [q |-> IF k >= Len(n1) THEN << >> ELSE SubSeq(n1, 1, Len(n1) - k),
             sticky |-> \E i \in 1..Len(n1) : i > Len(n1) - k /\ n1[i] # 0]
        inexact(c, x) == [q |-> x.q, sticky |-> c.sticky \/ x.sticky]
        halved(c) == IF s < 0 THEN inexact(c, DivPowerOfTwo(c.q, -s)) ELSE c
    IN  IF m = << >> THEN zero
        ELSE IF dex >= 0 /\ p <= 9 THEN Number((IF neg THEN -1 ELSE 1) * IntOf(m) * 10^dex)
        ELSE IF p > 309 THEN (IF neg THEN NegativeInfinity ELSE Infinity)
        ELSE IF p < -330 THEN zero
        ELSE RoundToDouble(neg, halved(cut(IF s > 0 THEN TimesPowerOfTwo(a, s) ELSE a)), -s)

\* the natural number written by the bits b (most significant first), as a
\* digit sequence
RECURSIVE BigOfBits(_)
BigOfBits(b) ==
    IF Len(b) <= 1 THEN StripZeros(b)
    ELSE LET k == IF Len(b) >= 54 THEN 27 ELSE Len(b) \div 2
             lo == BigOfBits(SubSeq(b, Len(b) - k + 1, Len(b)))
         IN  MulAdd(BigOfBits(SubSeq(b, 1, Len(b) - k)), 2^k, IntOf(lo))

\* the digits of a literal in base 2^w as bits; w = 4, 3, 1 for 0x, 0o, 0b
IsHexDigit(c) == IsDigit(c) \/ c \in {"a", "b", "c", "d", "e", "f", "A", "B", "C", "D", "E", "F"}
HexValue(c) ==
    IF IsDigit(c) THEN DigitValue(c)
    ELSE 9 + (CHOOSE k \in 1..6 : LowerCase[k] = toLowerCase(<< c >>)[1])
RadixBits(s, w) ==
    [j \in 1..(w * Len(s)) |->
        (HexValue(s[((j - 1) \div w) + 1]) \div 2^(w - 1 - ((j - 1) % w))) % 2]
RadixWidth(str) ==
    IF Len(str) < 3 \/ str[1] # "0" THEN 0
    ELSE LET body == SubSeq(str, 3, Len(str))
             below(b) == \A i \in 1..Len(body) : IsHexDigit(body[i]) /\ HexValue(body[i]) < b
         IN  CASE str[2] \in {"x", "X"} /\ below(16) -> 4
               [] str[2] \in {"o", "O"} /\ below(8) -> 3
               [] str[2] \in {"b", "B"} /\ below(2) -> 1
               [] OTHER -> 0

\* StrDecimalLiteral without its sign: digits with at most one decimal point
\* and at least one digit, then optionally e or E, an optional sign and digits
DecimalParts(body) ==
    LET first(str, chars) ==
            IF \E i \in 1..Len(str) : str[i] \in chars
            THEN CHOOSE i \in 1..Len(str) : str[i] \in chars /\ \A j \in 1..(i - 1) : str[j] \notin chars
            ELSE Len(str) + 1
        fields(ipart, fpart, epart, esign, exponent) ==
            [ok |-> /\ \A i \in 1..Len(ipart) : IsDigit(ipart[i])
                    /\ \A i \in 1..Len(fpart) : IsDigit(fpart[i])
                    /\ Len(ipart) + Len(fpart) > 0
                    /\ ~exponent \/ AllDigits(IF esign THEN Tail(epart) ELSE epart),
             digits |-> ipart \o fpart,
             scale |-> Len(fpart),
             eneg |-> esign /\ epart[1] = "-",
             edigits |-> IF esign THEN Tail(epart) ELSE epart]
        signed(mpart, dot, epart, exponent) ==
            fields(SubSeq(mpart, 1, dot - 1), SubSeq(mpart, dot + 1, Len(mpart)), epart,
                   epart # << >> /\ epart[1] \in {"+", "-"}, exponent)
        pointed(mpart, epart, exponent) == signed(mpart, first(mpart, {"."}), epart, exponent)
        split(e) == pointed(SubSeq(body, 1, e - 1), SubSeq(body, e + 1, Len(body)), e <= Len(body))
    IN  split(first(body, {"e", "E"}))

\* ToNumber applied to a string: white space is trimmed, the empty string is 0,
\* a 0x, 0o or 0b literal is its value (its first 60 significant bits are
\* rounded, the rest is the sticky bit), a signed decimal literal or Infinity
\* is its value, all rounded to the nearest double; everything else is NaN
StringToNumber(s) ==
    LET str == Trim(s)
        signed == str # << >> /\ str[1] \in {"+", "-"}
        neg == signed /\ str[1] = "-"
        body == IF signed THEN Tail(str) ELSE str
        digits(cs) == StripZeros([i \in 1..Len(cs) |-> DigitValue(cs[i])])
        power(ex) == IF Len(ex) > 6 THEN 1000000 ELSE IntOf(ex)
        dex(parts, e) == (IF parts.eneg THEN -e ELSE e) - parts.scale
        decimal(parts) ==
            IF parts.ok
            THEN [ok |-> TRUE, m |-> digits(parts.digits),
                  dex |-> dex(parts, power(digits(parts.edigits)))]
            ELSE [ok |-> FALSE, m |-> << >>, dex |-> 0]
        leading(bits) ==
            [q |-> BigOfBits(SubSeq(bits, 1, IF Len(bits) <= 60 THEN Len(bits) ELSE 60)),
             sticky |-> \E i \in 61..Len(bits) : bits[i] = 1,
             e |-> IF Len(bits) <= 60 THEN 0 ELSE Len(bits) - 60]
        radix(w) == leading(StripZeros(RadixBits(SubSeq(str, 3, Len(str)), w)))
        rounded(r) == RoundToDouble(FALSE, r, r.e)
        valued(d) == IF d.ok THEN DecimalToDouble(neg, d.m, d.dex) ELSE NaN
        literal(w) ==
            IF str = << >> THEN Number(0)
            ELSE IF w > 0 THEN rounded(radix(w))
            ELSE IF body = <<"I", "n", "f", "i", "n", "i", "t", "y">>
            THEN (IF neg THEN NegativeInfinity ELSE Infinity)
            ELSE valued(decimal(DecimalParts(body)))
    IN  literal(RadixWidth(str))

isNaN(s) == StringToNumber(s) = NaN

\* i compared with x, for an array index i and the number x a string converts
\* to: "lt", "eq" or "gt", and "unordered" for NaN, with which i >= x and
\* i <= x are both false
CompareIndex(i, x) ==
    LET scaled == TimesPowerOfTwo(DigitsOf(i), -x.exp)
        less(a, b) ==
            \/ Len(a) < Len(b)
            \/ /\ Len(a) = Len(b)
               /\ \E k \in 1..Len(a) : a[k] < b[k] /\ \A j \in 1..(k - 1) : a[j] = b[j]
    IN  CASE x = NaN -> "unordered"
          [] x = Infinity -> "lt"
          [] x = NegativeInfinity -> "gt"
          [] "n" \in DOMAIN x -> IF i < x.n THEN "lt" ELSE IF i > x.n THEN "gt" ELSE "eq"
          [] x.neg -> "gt"
          [] x.exp >= 0 -> "lt"
          [] OTHER -> IF less(x.mant, scaled) THEN "gt" ELSE "lt"

\* mongoose.Types.ObjectId.isValid on a string: any string of 12 characters,
\* or 24 hexadecimal digits
ObjectIdIsValid(s) == Len(s) = 12 \/ (Len(s) = 24 /\ \A i \in 1..Len(s) : IsHexDigit(s[i]))

\* new RegExp(s, "i") throws a SyntaxError when the parentheses of s are not
\* balanced, or a + has nothing to repeat (it is first, or follows ( or +);
\* the other characters of the alphabet stand for themselves (. for any one)
ParenDepth(s, i) ==
    Cardinality({j \in 1..i : s[j] = "("}) - Cardinality({j \in 1..i : s[j] = ")"})
RegExpThrows(s) ==
    \/ \E i \in 1..Len(s) : ParenDepth(s, i) < 0
    \/ ParenDepth(s, Len(s)) # 0
    \/ \E i \in 1..Len(s) : s[i] = "+" /\ (i = 1 \/ s[i - 1] \in {"(", "+"})

(***************************************************************************)
(* req.query: every parameter of the model is a key; an absent parameter   *)
(* is undefined.                                                           *)
(***************************************************************************)
QUndefined == [t |-> "undefined", s |-> << >>]
QStr(chars) == [t |-> "string", s |-> chars]

QueryKeys == {"_start", "_end", "_sort", "_order", "color", "foo"}
\* Object.keys(Resource.schema.paths) of the Item model (part_004)
modelProps == {"name", "color", "_id", "__v"}

Query(start, end, sort, order, color, foo) ==
    [k \in QueryKeys |->
        CASE k = "_start" -> start [] k = "_end" -> end [] k = "_sort" -> sort
          [] k = "_order" -> order [] k = "color" -> color [] k = "foo" -> foo]

EmptyQuery == [k \in QueryKeys |-> QUndefined]

\* if (x) on a query value: undefined and "" are falsy
QTruthy(x) == x.t = "string" /\ x.s # << >>

\* variant: no boolean branch
FilterValueNoBool(i, val) ==
    IF ~isNaN(val) THEN StringToNumber(val)
    ELSE IF i = "part_001" /\ ObjectIdIsValid(val) THEN [t |-> "objectid", s |-> val]
    ELSE [t |-> "regexp", source |-> val, flags |-> "i"]
\* the filter value the List action derives from one query value
FilterValue(i, val) ==
    IF ~isNaN(val) THEN StringToNumber(val)
    ELSE IF toLowerCase(val) \in {<<"t", "r", "u", "e">>, <<"f", "a", "l", "s", "e">>}
         THEN [t |-> "boolean", b |-> (toLowerCase(val) = <<"t", "r", "u", "e">>)]
    ELSE IF i = "part_001" /\ ObjectIdIsValid(val) THEN [t |-> "objectid", s |-> val]
    ELSE [t |-> "regexp", source |-> val, flags |-> "i"]

\* TRUE when building the filter value throws (new RegExp on a bad pattern)
FilterValueThrows(i, val) ==
    /\ FilterValue(i, val).t = "regexp"
    /\ RegExpThrows(val)

\* the query parameters that name a model field
filters(query) == {k \in QueryKeys : query[k].t # "undefined" /\ k \in modelProps}

\* the filter handed to Resource.find, and whether building it threw
BuildFilter(i, query) ==
    [threw |-> \E f \in filters(query) : FilterValueThrows(i, query[f].s),
     filter |-> [f \in filters(query) |-> FilterValue(i, query[f].s)]]

\* query.sort(...): the sort handed to the query, << >> when none is applied
SortOf(query) ==
    IF QTruthy(query["_sort"]) /\ QTruthy(query["_order"])
    THEN IF query["_order"].s = <<"A", "S", "C">> THEN << <<query["_sort"].s, 1>> >>
         ELSE IF query["_order"].s = <<"D", "E", "S", "C">> THEN << <<query["_sort"].s, -1>> >>
         ELSE << >>
    ELSE << >>

\* variant: slicing is attempted when either parameter is present
PaginateEither(query, items) ==
    LET start == StringToNumber(query["_start"].s)
        end == StringToNumber(query["_end"].s)
    IN  IF query["_start"].t # "undefined" \/ query["_end"].t # "undefined"
        THEN SelectSeq([k \in 1..Len(items) |-> <<k - 1, items[k]>>],
                       LAMBDA p : /\ query["_start"].t # "undefined"
                                  /\ query["_end"].t # "undefined"
                                  /\ CompareIndex(p[1], start) \in {"gt", "eq"}
                                  /\ CompareIndex(p[1], end) \in {"lt", "eq"})
        ELSE [k \in 1..Len(items) |-> <<k - 1, items[k]>>]
\* variant: the upper bound is exclusive
PaginateExclusive(query, items) ==
    LET start == StringToNumber(query["_start"].s)
        end == StringToNumber(query["_end"].s)
    IN  IF query["_start"].t # "undefined" /\ query["_end"].t # "undefined"
        THEN SelectSeq([k \in 1..Len(items) |-> <<k - 1, items[k]>>],
                       LAMBDA p : /\ CompareIndex(p[1], start) \in {"gt", "eq"}
                                  /\ CompareIndex(p[1] + 1, end) \in {"lt", "eq"})
        ELSE [k \in 1..Len(items) |-> <<k - 1, items[k]>>]
\* data.filter((o, i) => i >= req.query._start && i <= req.query._end), applied
\* only when both parameters are present; i counts from 0, and each comparison
\* converts the parameter with ToNumber
PaginateIndexed(query, items) ==
    LET start == StringToNumber(query["_start"].s)
        end == StringToNumber(query["_end"].s)
    IN  IF query["_start"].t # "undefined" /\ query["_end"].t # "undefined"
        THEN SelectSeq([k \in 1..Len(items) |-> <<k - 1, items[k]>>],
                       LAMBDA p : /\ CompareIndex(p[1], start) \in {"gt", "eq"}
                                  /\ CompareIndex(p[1], end) \in {"lt", "eq"})
        ELSE [k \in 1..Len(items) |-> <<k - 1, items[k]>>]

Paginate(query, items) ==
    LET kept == PaginateIndexed(query, items)
    IN  [k \in 1..Len(kept) |-> kept[k][2]]

(***************************************************************************)
(* Requests.  A URL path and a route pattern are compared segment by       *)
(* segment; a segment of the pattern that starts with ":" matches any      *)
(* segment (express).                                                      *)
(***************************************************************************)
Segments(path) ==
    CASE path = "/"             -> << >>
      [] path = "/all"          -> <<"all">>
      [] path = "/single/:id"   -> <<"single", ":id">>
      [] path = "/:id"          -> <<":id">>
      [] path = "/custom-route" -> <<"custom-route">>
      [] path = "/single/7"     -> <<"single", "7">>
      [] path = "/7"            -> <<"7">>
      [] path = "/8"            -> <<"8">>

PathMatches(pattern, url) ==
    LET p == Segments(pattern)
        u == Segments(url)
    IN  /\ Len(p) = Len(u)
        /\ \A i \in 1..Len(p) : p[i] = ":id" \/ p[i] = u[i]

\* the first route of the stack at or after `from` that matches, 0 when none does
NextMatch(stack, from, method, url) ==
    LET hits == {i \in from..Len(stack) : stack[i].method = method /\ PathMatches(stack[i].path, url)}
    IN  IF hits = {} THEN 0 ELSE CHOOSE i \in hits : \A j \in hits : i <= j

\* what a data-access promise resolves with, and what a handler sends
Data(kind, items) == [kind |-> kind, items |-> items]
Docs(n) == Data("array", [k \in 1..n |-> k])
Doc == Data("doc", <<7>>)
Null == Data("null", << >>)
Removed == Data("removed", << >>)
Text == Data("text", << >>)
NoData == Data("undefined", << >>)

\* new Error with a status and a message (helpers.js); a raw error has no status
Err(status, msg) == [status |-> status, message |-> msg]
RawError(msg) == [status |-> "undefined", message |-> msg]

\* req.body: the fields sent with the request; req.params.id: the document
\* identifier in the URL, 0 when the URL carries none
NoBody == << >>
ParamsId(url) ==
    CASE url \in {"/7", "/single/7"} -> 7
      [] url = "/8" -> 8
      [] OTHER -> 0

NoDb ==
    [calls |-> 0, op |-> "none", filter |-> << >>, sort |-> << >>, state |-> "none",
     result |-> NoData, handle |-> "none", modifierCalls |-> 0,
     id |-> 0, body |-> NoBody]

NoReq ==
    [pc |-> "none", fin |-> "", method |-> "", url |-> "", query |-> EmptyQuery,
     layer |-> 0, stage |-> 0, trace |-> << >>,
     sent |-> << >>, header |-> << >>, crbResult |-> << >>, err |-> << >>,
     nexts |-> 0, db |-> NoDb, body |-> NoBody]

\* the handler the request is at
Handler(stack, r) == stack[r.layer].stack[r.stage]

\* the handler starts: noted in the request's trace
Enter(stack, r) ==
    [r EXCEPT !.trace = Append(@, [layer |-> r.layer, stage |-> r.stage,
                                   name |-> Handler(stack, r).v])]

\* router.handle: the request goes to the first matching route
Dispatch(stack, method, url, query) ==
    LET first == NextMatch(stack, 1, method, url)
        r == [NoReq EXCEPT !.method = method, !.url = url, !.query = query]
    IN  IF first = 0
        THEN [r EXCEPT !.pc = "done", !.fin = "notFound"]
        ELSE [r EXCEPT !.pc = "handler", !.layer = first, !.stage = 1]

\* next(): the next handler of the route, then the next matching route, then
\* out of the router
CallNext(stack, r) ==
    LET nx == NextMatch(stack, r.layer + 1, r.method, r.url)
    IN  IF r.stage < Len(stack[r.layer].stack)
        THEN [r EXCEPT !.pc = "handler", !.stage = @ + 1]
        ELSE IF nx = 0
        THEN [r EXCEPT !.pc = "done", !.fin = "notFound"]
        ELSE [r EXCEPT !.pc = "handler", !.layer = nx, !.stage = 1]

\* next(err): the rest of the chain is skipped, the error leaves the router
CallNextErr(r, e) == [r EXCEPT !.pc = "done", !.fin = "error", !.err = <<e>>]

\* res.send(body) by the handler named `by`; the handler then returns
ResSend(r, by, body) ==
    [r EXCEPT !.pc = "done", !.fin = "responded",
              !.sent = Append(@, [by |-> by, body |-> body])]

\* variant: the result is not stored on the request before next() is called
sendCrbResultNoStore(stack, afterMiddleware, data, r) ==
    IF ~Truthy(afterMiddleware) \/ afterMiddleware = emptyMiddleware
    THEN ResSend(r, Handler(stack, r).v, data)
    ELSE CallNext(stack, [r EXCEPT !.nexts = @ + 1])
\* helpers.js 45-53
sendCrbResult(stack, afterMiddleware, data, r) ==
    IF ~Truthy(afterMiddleware) \/ afterMiddleware = emptyMiddleware
    THEN ResSend(r, Handler(stack, r).v, data)
    ELSE CallNext(stack, [r EXCEPT !.crbResult = <<data>>, !.nexts = @ + 1])

(***************************************************************************)
(* The caller's functions.  Each is known by its name, which fixes what it *)
(* does: b* are before-middleware, a* after-middleware, x* extension       *)
(* handlers.                                                               *)
(***************************************************************************)
Behaviour(name) ==
    CASE name \in {"emptyMiddleware", "bNext", "aNext", "xNext"} -> "next"
      [] name \in {"bSend", "aSend", "xSend"} -> "send"
      [] name = "bErr" -> "error"
      [] name \in {"aHang", "xAsync"} -> "none"

\* a middleware that is not a default action runs to its end
MiddlewareStep(stack, r0) ==
    LET r == Enter(stack, r0)
        name == Handler(stack, r0).v
    IN  CASE Behaviour(name) = "next"  -> CallNext(stack, r)
          [] Behaviour(name) = "send"  ->
                ResSend(r, name, IF name = "aSend"
                                 THEN (IF r.crbResult = << >> THEN NoData ELSE r.crbResult[1])
                                 ELSE Text)
          [] Behaviour(name) = "error" -> CallNextErr(r, Err("401", "refused"))
          [] Behaviour(name) = "none"  -> [r EXCEPT !.pc = "done", !.fin = "hung"]

\* the data-access call each default action makes
DbOp(name) ==
    CASE name = "getAll"    -> "find"
      [] name = "getSingle" -> "findOne"
      [] name = "update"    -> "findByIdAndUpdate"
      [] name = "create"    -> "save"
      [] name = "remove"    -> "remove"

\* part_001: const resourceModifier = args.resourceModifier || false; the other
\* implementations never read args.resourceModifier
resourceModifierOf(i, a) ==
    IF i = "part_001" /\ Truthy(a.resourceModifier) THEN a.resourceModifier ELSE Undefined

\* what a caller's resourceModifier does: return another handle, or throw
ModifierBehaviour(name) ==
    CASE name = "mScope" -> "Scoped"
      [] name = "mThrow" -> "throw"

\* variant: the resourceModifier call sits outside the try block
ActionStartNoTry(i, stack, r0) ==
    LET modifier == resourceModifierOf(i, args)
        r == Enter(stack, r0)
        threw == \/ modifier # Undefined /\ ModifierBehaviour(modifier.v) = "throw"
                 \/ Handler(stack, r0).v = "getAll" /\ BuildFilter(i, r.query).threw
    IN  IF threw
        THEN [r EXCEPT !.pc = "done", !.fin = "uncaught"]
        ELSE [r EXCEPT !.pc = "querying", !.db.calls = @ + 1, !.db.state = "pending"]

\* the synchronous part of a default action: the body of its try block up to
\* the data-access call, or the catch that forwards what was thrown
ActionStart(i, stack, r0) ==
    LET name == Handler(stack, r0).v
        modifier == resourceModifierOf(i, args)
        called == IF modifier = Undefined THEN 0 ELSE 1
        r == [Enter(stack, r0) EXCEPT !.db.modifierCalls = @ + called]
        bf == BuildFilter(i, r.query)
    IN  IF modifier # Undefined /\ ModifierBehaviour(modifier.v) = "throw"
        THEN CallNextErr(r, RawError("modifier failed"))
        ELSE IF name = "getAll" /\ bf.threw
        THEN CallNextErr(r, RawError("Invalid regular expression"))
        ELSE [r EXCEPT !.pc = "querying",
                       !.db = [calls |-> @.calls + 1, op |-> DbOp(name),
                               filter |-> IF name = "getAll" THEN bf.filter ELSE << >>,
                               sort |-> IF name = "getAll" THEN SortOf(r.query) ELSE << >>,
                               state |-> "pending", result |-> NoData,
                               handle |-> IF modifier = Undefined THEN "Resource"
                                          ELSE ModifierBehaviour(modifier.v),
                               modifierCalls |-> @.modifierCalls,
                               id |-> ParamsId(r.url),
                               body |-> IF name \in {"update", "create"}
                                        THEN r.body ELSE NoBody]]

\* what each implementation does with the (possibly sliced) result
DispatchResult(i, stack, data, r) ==
    CASE i \in CrbImpls -> sendCrbResult(stack, Handler(stack, r).after, data, r)
      [] i = "part_002" ->
            CallNext(stack, [ResSend(r, Handler(stack, r).v, data) EXCEPT !.nexts = @ + 1])
      [] i = "part_000" -> ResSend(r, Handler(stack, r).v, data)

\* the .then callback of a default action
ActionResolved(i, stack, data, r0) ==
    LET name == Handler(stack, r0).v
        r == [r0 EXCEPT !.db.state = "resolved", !.db.result = data]
    IN  IF name = "getAll"
        THEN DispatchResult(i, stack, Data("array", Paginate(r.query, data.items)),
                            [r EXCEPT !.header = <<Len(data.items)>>])
        ELSE DispatchResult(i, stack, data, r)

\* the .catch callback of a default action, where it has one
ActionRejected(i, stack, msg, r0) ==
    LET name == Handler(stack, r0).v
        r == [r0 EXCEPT !.db.state = "rejected"]
    IN  CASE i = "part_001" -> CallNextErr(r, RawError(msg))
          [] i # "part_001" /\ name # "remove" -> CallNextErr(r, Err("400", msg))
          [] i # "part_001" /\ name = "remove" ->
                \* no catch on the promise: an unhandled rejection, and no response
                [r EXCEPT !.pc = "done", !.fin = "unhandledRejection"]

\* what the data-access call of a default action can resolve with
Results(name, sizes) ==
    CASE name = "getAll" -> {Docs(n) : n \in sizes}
      [] name \in {"getSingle", "update"} -> {Doc, Null}
      [] name = "create" -> {Doc}
      [] name = "remove" -> {Removed}

(***************************************************************************)
(* The state machine                                                       *)
(***************************************************************************)
\* the identifier the first saved document gets: the one of the document Doc
FirstId == Doc.items[1]

NoArgs == [extensions |-> << >>, before |-> << >>, after |-> << >>, resourceModifier |-> Undefined]

NoAgain == [built |-> "no", args |-> NoArgs, router |-> << >>]
NoCall == [routes |-> << >>, method |-> "", route |-> "", result |-> << >>]
\* an empty collection; FirstId is the identifier the first saved document gets
EmptyStore == [docs |-> << >>, nextId |-> FirstId]

Init(impls) ==
    /\ impl \in impls
    /\ args = NoArgs
    /\ built = "no"
    /\ router = << >>
    /\ req = NoReq
    /\ other = NoReq
    /\ again = NoAgain
    /\ call = NoCall
    /\ store = EmptyStore
    /\ done = << >>

\* buildRoutes(Resource, a), for some a of `configs`
BuildRoutes(configs) ==
    /\ built = "no"
    /\ \E a \in configs :
          LET b == buildRoutes(impl, a)
          IN  /\ built' = IF b.thrown = "none" THEN "returned" ELSE b.thrown
              /\ router' = b.stack
              /\ args' = a
    /\ UNCHANGED <<impl, req, other, again, call, store, done>>

\* a request <<method, url, query>> of `requests` arrives at the mounted router
Receive(requests) ==
    /\ built = "returned"
    /\ req.pc = "none"
    /\ \E rq \in requests : req' = Dispatch(router, rq[1], rq[2], rq[3])
    /\ UNCHANGED <<impl, args, built, router, other, again, call, store, done>>

\* express calls a before-middleware, an after-middleware or an extension handler
RunMiddleware ==
    /\ req.pc = "handler"
    /\ ~IsAction(Handler(router, req))
    /\ req' = MiddlewareStep(router, req)
    /\ UNCHANGED <<impl, args, built, router, other, again, call, store, done>>

\* express calls a default action
StartAction ==
    /\ req.pc = "handler"
    /\ IsAction(Handler(router, req))
    /\ req' = ActionStart(impl, router, req)
    /\ UNCHANGED <<impl, args, built, router, other, again, call, store, done>>

\* the data-access promise resolves
DataResolve(sizes) ==
    /\ req.pc = "querying"
    /\ \E data \in Results(Handler(router, req).v, sizes) :
          req' = ActionResolved(impl, router, data, req)
    /\ UNCHANGED <<impl, args, built, router, other, again, call, store, done>>

\* the data-access promise is rejected
DataReject ==
    /\ req.pc = "querying"
    /\ req' = ActionRejected(impl, router, "CastError", req)
    /\ UNCHANGED <<impl, args, built, router, other, again, call, store, done>>

\* extractMiddleware(routes, method, route) as the loaded implementation defines
\* it: helpers.js for index.js and part_001, its own for part_002
extractMiddlewareOf(i, routes, method, route) ==
    IF i = "part_002"
    THEN [t |-> "array", v |-> extractMiddlewareAll(routes, method, route)]
    ELSE extractMiddleware(routes, method, route)

\* a direct call extractMiddleware(routes, method, route)
ExtractMiddleware(lists, slots) ==
    /\ call.result = << >>
    /\ \E routes \in lists, slot \in slots :
          call' = [routes |-> routes, method |-> slot[1], route |-> slot[2],
                   result |-> << extractMiddlewareOf(impl, routes, Str(slot[1]), Str(slot[2])) >>]
    /\ UNCHANGED <<impl, args, built, router, req, other, again, store, done>>

\* the router a buildRoutes call registers on: part_000 keeps one router at
\* module level (line 2) and every call registers on it and returns it; the
\* other implementations create a router in each call
RouterOfCall(i, existing) == IF i = "part_000" THEN existing ELSE << >>

\* a later call buildRoutes(Resource2, a) of the same module, for some a of `configs`
BuildRoutesAgain(configs) ==
    /\ built = "returned"
    /\ again.built = "no"
    /\ \E a \in configs :
          LET b == buildRoutes(impl, a)
              stack == RouterOfCall(impl, router) \o b.stack
          IN  /\ again' = [built |-> IF b.thrown = "none" THEN "returned" ELSE b.thrown,
                           args |-> a, router |-> stack]
              \* the router returned earlier is the same object in part_000
              /\ router' = IF impl = "part_000" THEN stack ELSE router
    /\ UNCHANGED <<impl, args, built, req, other, call, store, done>>

\* the same steps for a second request, which express handles with a req and a
\* res of its own while the first is in flight
ReceiveOther(requests) ==
    /\ built = "returned"
    /\ other.pc = "none"
    /\ \E rq \in requests : other' = Dispatch(router, rq[1], rq[2], rq[3])
    /\ UNCHANGED <<impl, args, built, router, req, again, call, store, done>>

RunMiddlewareOther ==
    /\ other.pc = "handler"
    /\ ~IsAction(Handler(router, other))
    /\ other' = MiddlewareStep(router, other)
    /\ UNCHANGED <<impl, args, built, router, req, again, call, store, done>>

StartActionOther ==
    /\ other.pc = "handler"
    /\ IsAction(Handler(router, other))
    /\ other' = ActionStart(impl, router, other)
    /\ UNCHANGED <<impl, args, built, router, req, again, call, store, done>>

DataResolveOther(sizes) ==
    /\ other.pc = "querying"
    /\ \E data \in Results(Handler(router, other).v, sizes) :
          other' = ActionResolved(impl, router, data, other)
    /\ UNCHANGED <<impl, args, built, router, req, again, call, store, done>>

DataRejectOther ==
    /\ other.pc = "querying"
    /\ other' = ActionRejected(impl, router, "CastError", other)
    /\ UNCHANGED <<impl, args, built, router, req, again, call, store, done>>

NextOther(requests, sizes) ==
    \/ ReceiveOther(requests)
    \/ RunMiddlewareOther
    \/ StartActionOther
    \/ DataResolveOther(sizes)
    \/ DataRejectOther

(***************************************************************************)
(* The collection behind the data handle, as mongoose serves the five      *)
(* calls the actions make.  A document is a function from field names to   *)
(* values; save gives it the next identifier.                              *)
(***************************************************************************)
\* new Resource(body).save(): the schema's fields of the body and a fresh _id
NewDocument(st, body) ==
    [f \in {"_id"} \cup (DOMAIN body \cap modelProps) |->
        IF f = "_id" THEN st.nextId ELSE body[f]]

\* {$set: body} applied to a document
SetFields(doc, body) ==
    [f \in DOMAIN doc \cup (DOMAIN body \cap modelProps) |->
        IF f \in DOMAIN body THEN body[f] ELSE doc[f]]

WithId(docs, id) == SelectSeq(docs, LAMBDA d : d["_id"] = id)
WithoutId(docs, id) == SelectSeq(docs, LAMBDA d : d["_id"] # id)

\* variant: findByIdAndUpdate resolves with the document as it was before the update
StoreExecReturnsOld(st, db) ==
    CASE db.op = "find" -> [store |-> st, data |-> Data("array", st.docs)]
      [] db.op = "findOne" ->
            [store |-> st,
             data |-> IF WithId(st.docs, db.id) = << >> THEN Null
                      ELSE Data("doc", << WithId(st.docs, db.id)[1] >>)]
      [] db.op = "findByIdAndUpdate" ->
            [store |-> [st EXCEPT !.docs = [k \in 1..Len(@) |->
                            IF @[k]["_id"] = db.id THEN SetFields(@[k], db.body) ELSE @[k]]],
             data |-> IF WithId(st.docs, db.id) = << >> THEN Null
                      ELSE Data("doc", << WithId(st.docs, db.id)[1] >>)]
      [] db.op = "save" ->
            [store |-> [docs |-> Append(st.docs, NewDocument(st, db.body)),
                        nextId |-> st.nextId + 1],
             data |-> Data("doc", << NewDocument(st, db.body) >>)]
      [] db.op = "remove" ->
            [store |-> [st EXCEPT !.docs = WithoutId(@, db.id)], data |-> Removed]

\* the call recorded in db, served from the collection st: the collection
\* afterwards and the data the promise resolves with
StoreExec(st, db) ==
    CASE db.op = "find" -> [store |-> st, data |-> Data("array", st.docs)]
      [] db.op = "findOne" ->
            [store |-> st,
             data |-> IF WithId(st.docs, db.id) = << >> THEN Null
                      ELSE Data("doc", << WithId(st.docs, db.id)[1] >>)]
      [] db.op = "findByIdAndUpdate" ->
            \* {new: true}: resolves with the document after the update
            [store |-> [st EXCEPT !.docs = [k \in 1..Len(@) |->
                            IF @[k]["_id"] = db.id THEN SetFields(@[k], db.body) ELSE @[k]]],
             data |-> IF WithId(st.docs, db.id) = << >> THEN Null
                      ELSE Data("doc", << SetFields(WithId(st.docs, db.id)[1], db.body) >>)]
      [] db.op = "save" ->
            [store |-> [docs |-> Append(st.docs, NewDocument(st, db.body)),
                        nextId |-> st.nextId + 1],
             data |-> Data("doc", << NewDocument(st, db.body) >>)]
      [] db.op = "remove" ->
            [store |-> [st EXCEPT !.docs = WithoutId(@, db.id)], data |-> Removed]

\* a request <<method, url, query, body>> of `requests` arrives, once the one
\* before it has been answered
ReceiveBody(requests) ==
    /\ built = "returned"
    /\ req.pc = "none"
    /\ Len(done) < MaxRequests
    /\ \E rq \in requests :
          req' = [Dispatch(router, rq[1], rq[2], rq[3]) EXCEPT !.body = rq[4]]
    /\ UNCHANGED <<impl, args, built, router, other, again, call, store, done>>

\* the data-access promise resolves with what the collection holds; the List
\* filter is empty in these requests, so find matches every document
DataExecute ==
    /\ req.pc = "querying"
    /\ req.db.filter = << >>
    /\ LET exec == StoreExec(store, req.db)
       IN  /\ req' = ActionResolved(impl, router, exec.data, req)
           /\ store' = exec.store
    /\ UNCHANGED <<impl, args, built, router, other, again, call, done>>

\* the exchange is over: what the client got is noted and the next request can come
Complete ==
    /\ req.pc = "done"
    /\ done' = Append(done, [method |-> req.method, url |-> req.url, body |-> req.body,
                             fin |-> req.fin, sent |-> req.sent, header |-> req.header])
    /\ req' = NoReq
    /\ UNCHANGED <<impl, args, built, router, other, again, call, store>>

NextStore(configs, requests) ==
    \/ BuildRoutes(configs)
    \/ ReceiveBody(requests)
    \/ RunMiddleware
    \/ StartAction
    \/ DataExecute
    \/ Complete

Next(configs, requests, sizes) ==
    \/ BuildRoutes(configs)
    \/ Receive(requests)
    \/ RunMiddleware
    \/ StartAction
    \/ DataResolve(sizes)
    \/ DataReject

(***************************************************************************)
(* Inputs                                                                  *)
(***************************************************************************)
\* one request per default slot, and one to the custom route
SlotRequests ==
    { <<"get", "/all">>, <<"get", "/single/7">>, <<"put", "/7">>, <<"post", "/">>,
      <<"delete", "/7">>, <<"get", "/custom-route">> }

\* the slots the caller's descriptors are declared for
DescriptorSlots == { <<"get", "/all">>, <<"delete", "/:id">>, <<"get", "/custom-route">> }

DescriptorsOf(fns) == { Route(Str(s[1]), Str(s[2]), Fn(f)) : s \in DescriptorSlots, f \in fns }
AtMostOne(ds) == { << >> } \cup { <<d>> : d \in ds }

\* the chains: at most one descriptor in each of extensions, before and after
ChainConfigs ==
    { [extensions |-> e, before |-> b, after |-> a, resourceModifier |-> Undefined] :
        e \in AtMostOne(DescriptorsOf({"xSend", "xNext"})),
        b \in AtMostOne(DescriptorsOf({"bNext", "bSend", "bErr"})),
        a \in AtMostOne(DescriptorsOf({"aSend", "aNext", "aHang"})) }

ChainRequests == { <<rq[1], rq[2], EmptyQuery>> : rq \in SlotRequests }
ChainSizes == {0, 2}

\* the List queries: pagination, sort, a filter on a model field, an unknown parameter
PageValues ==
    { QUndefined, QStr(<<"0">>), QStr(<<"1">>), QStr(<<"2">>), QStr(<<"1", "0">>),
      QStr(<<"1", ".", "5">>), QStr(<<"a", "b", "c">>) }
SortValues ==
    { <<QUndefined, QUndefined>>,
      <<QStr(<<"n", "a", "m", "e">>), QStr(<<"A", "S", "C">>)>>,
      <<QStr(<<"n", "a", "m", "e">>), QStr(<<"D", "E", "S", "C">>)>>,
      <<QStr(<<"n", "a", "m", "e">>), QStr(<<"a", "s", "c">>)>> }
FieldValues ==
    { QUndefined,
      QStr(<<"r", "e", "d">>),
      QStr(<<"t", "r", "u", "e">>),
      QStr(<<"T", "R", "U", "E">>),
      QStr(<<"F", "a", "l", "s", "e">>),
      QStr(<<"1", "2">>),
      QStr(<< >>),
      QStr(<<" ">>),
      QStr(<<"1", "e", "1">>),
      QStr(<<"0", "x", "1", "0">>),
      QStr(<<"-", "1", ".", "5">>),
      QStr(<<"1", "e", "4", "0", "0">>),
      QStr(<<"a", "b", "c", "d", "e", "f", "g", "h", "i", "j", "k", "l">>),
      QStr(<<"(", "r", "e", "d">>),
      QStr(<<"+">>) }

ListQueries ==
    { Query(st, en, so[1], so[2], co, QUndefined) :
        st \in PageValues, en \in PageValues, so \in SortValues, co \in FieldValues }
    \cup { Query(QUndefined, QUndefined, QUndefined, QUndefined, co, QStr(<<"1">>)) :
              co \in FieldValues }

ListRequests == { <<"get", "/all", q>> : q \in ListQueries }
ListConfigs ==
    { NoArgs, [NoArgs EXCEPT !.after = << Route(Str("get"), Str("/all"), Fn("aSend")) >>] }
ListSizes == 0..MaxDocs

\* the systematically enumerated configurations: every way to put at most
\* MaxDescs descriptors, valid or not, into the three lists
SystematicDescs ==
    { Route(Str("get"), Str("/all"), Fn("xSend")),
      Route(Str("get"), Str("/all"), Fn("xNext")),
      Route(Str("patch"), Str("/all"), Fn("xSend")),
      Route(Str("get"), Num("42"), Fn("xSend")),
      Route(Str("get"), Str("/all"), Str("notFn")),
      Route(Str("get"), Str("/all"), ClassFn("xAsync", "AsyncFunction")) }

\* the configurations with ke extensions, kb before- and ka after-descriptors
ConfigsOfSize(ke, kb, ka) ==
    { [extensions |-> e, before |-> b, after |-> a, resourceModifier |-> Undefined] :
        e \in [1..ke -> SystematicDescs],
        b \in [1..kb -> SystematicDescs],
        a \in [1..ka -> SystematicDescs] }

SystematicConfigs ==
    UNION { ConfigsOfSize(k[1], k[2], k[3]) :
            k \in { x \in (0..MaxDescs) \X (0..MaxDescs) \X (0..MaxDescs) :
                        x[1] + x[2] + x[3] <= MaxDescs } }

\* configurations with a resourceModifier, and requests whose filter cannot be built
ModConfigs ==
    { [NoArgs EXCEPT !.after = a, !.resourceModifier = m] :
        a \in AtMostOne(DescriptorsOf({"aSend"})),
        m \in {Undefined, Fn("mScope"), Fn("mThrow")} }
ModRequests ==
    ChainRequests \cup
    { <<"get", "/all", Query(QUndefined, QUndefined, QUndefined, QUndefined, co, QUndefined)>> :
        co \in {QStr(<<"(", "r", "e", "d">>), QStr(<<"r", "e", "d">>)} }
ModSizes == {1}

\* the descriptor lists handed to extractMiddleware: up to MaxDescs descriptors
\* over the declared slots, several of them for the same slot
ExtractDescs ==
    DescriptorsOf({"aSend", "aNext"})
        \cup { Route(Str("get"), StrObj("/all", 1), Fn("aSend")) }
ExtractLists == UNION { [1..k -> ExtractDescs] : k \in 0..MaxDescs }
ExtractImpls == {"index.js", "part_001", "part_002"}

\* configurations of two buildRoutes calls: no extension, or one custom route
AgainConfigs ==
    { [NoArgs EXCEPT !.extensions = e] :
        e \in AtMostOne({ Route(Str("get"), Str("/custom-route"), Fn("xSend")),
                          Route(Str("get"), Str("/all"), Fn("xNext")) }) }

\* two requests in flight: after-handlers that send req.crbResult, for some
\* slots and not for others
TwoConfigs ==
    { NoArgs,
      [NoArgs EXCEPT !.after = << Route(Str("get"), Str("/single/:id"), Fn("aSend")) >>],
      [NoArgs EXCEPT !.after = << Route(Str("get"), Str("/single/:id"), Fn("aSend")),
                                  Route(Str("get"), Str("/all"), Fn("aSend")) >>] }
TwoRequests == { <<"get", "/single/7", EmptyQuery>>, <<"get", "/all", EmptyQuery>> }
TwoSizes == {0, 1, 2}

\* the create, list, update, delete requests on one collection
Widget == [f \in {"name", "color"} |-> IF f = "name" THEN "widget" ELSE "red"]
Gadget == [f \in {"name"} |-> "gadget"]
Blue == [f \in {"color"} |-> "blue"]
StoreRequests ==
    { <<"post", "/", EmptyQuery, Widget>>,
      <<"post", "/", EmptyQuery, Gadget>>,
      <<"get", "/all", EmptyQuery, NoBody>>,
      <<"put", "/7", EmptyQuery, Blue>>,
      <<"delete", "/7", EmptyQuery, NoBody>> }
StoreConfigs == ListConfigs

BuildRequests == { <<"get", "/all", EmptyQuery>> }
BuildSizes == {1}

Spec == Init(Impls) /\ [][Next(ChainConfigs, ChainRequests, ChainSizes)]_vars
SpecCrb == Init(CrbImpls) /\ [][Next(ChainConfigs, ChainRequests, ChainSizes)]_vars
SpecList == Init(CrbImpls) /\ [][Next(ListConfigs, ListRequests, ListSizes)]_vars
SpecBuild == Init(CrbImpls) /\ [][Next(SystematicConfigs, BuildRequests, BuildSizes)]_vars

SpecExtract == Init(ExtractImpls) /\ [][ExtractMiddleware(ExtractLists, DescriptorSlots)]_vars
SpecAgain ==
    Init(Impls) /\ [][Next(AgainConfigs, ChainRequests, BuildSizes) \/ BuildRoutesAgain(AgainConfigs)]_vars
SpecTwo ==
    Init(CrbImpls) /\ [][Next(TwoConfigs, TwoRequests, TwoSizes) \/ NextOther(TwoRequests, TwoSizes)]_vars
SpecStore == Init(CrbImpls) /\ [][NextStore(StoreConfigs, StoreRequests)]_vars
SpecMod == Init(CrbImpls) /\ [][Next(ModConfigs, ModRequests, ModSizes)]_vars

\* express runs the handler a request is at, and the data handle settles every
\* promise it returned
SpecCrbFair ==
    /\ SpecCrb
    /\ WF_vars(RunMiddleware)
    /\ WF_vars(StartAction)
    /\ WF_vars(DataResolve(ChainSizes) \/ DataReject)

(***************************************************************************)
(* Properties                                                              *)
(***************************************************************************)
\* the promise of the default action's data-access call has resolved
Resolved == req.db.state = "resolved"
\* a default action called res.send
ActionSent == \E k \in 1..Len(req.sent) : req.sent[k].by \in ActionNames
\* the route is one of the five defaults
IsDefaultRoute(route) == \E k \in 1..Len(route.stack) : IsAction(route.stack[k])
\* the caller declared an after-descriptor with the route's own method and path
HasAfterFor(route) ==
    \E i \in 1..Len(args.after) :
        args.after[i].method = Str(route.method) /\ args.after[i].route = Str(route.path)

\* C1: whenever the data-access call of a default action has succeeded, the
\* action either sent the result itself, or stored it in req.crbResult and
\* called next(); it never sent and called next() as well, and never did neither.
C1_SendXorDefer ==
    Resolved =>
        LET immediate == ActionSent
            continued == req.nexts > 0
        IN  /\ immediate \/ (continued /\ req.crbResult # << >>)
            /\ ~(immediate /\ continued)

\* C2: on a default route the result is stored in req.crbResult and left to the
\* after-handler exactly when `after` holds a descriptor with the route's own
\* method and path; otherwise the action sends it and req.crbResult stays empty.
C2_DeferredIffOwnAfter ==
    (req.layer > 0 /\ IsDefaultRoute(router[req.layer])) =>
        LET route == router[req.layer]
        IN  /\ ~HasAfterFor(route) => req.crbResult = << >>
            /\ Resolved =>
                IF HasAfterFor(route)
                THEN /\ req.crbResult = <<req.db.result>>
                     /\ ~ActionSent
                     /\ req.nexts = 1
                ELSE /\ req.sent = << [by |-> route.stack[2].v, body |-> req.db.result] >>
                     /\ req.fin = "responded"
                     /\ req.nexts = 0

\* C2's case: an after-handler is declared for get /all only, and a request to
\* get /single/:id was answered by the action itself with req.crbResult empty.
C2_Witness ==
    /\ args.after = << Route(Str("get"), Str("/all"), Fn("aSend")) >>
    /\ req.url = "/single/7"
    /\ Resolved
    /\ req.sent = << [by |-> "getSingle", body |-> Doc] >>
    /\ req.crbResult = << >>

\* C3: in every route the request enters, the handlers start in the order
\* before-handler, action, after-handler, each only after the one before it
\* called next(); the after-handler of a default route starts only once the
\* data-access call has resolved and its result is in req.crbResult.
C3_BeforeActionAfter ==
    \A k \in 1..Len(req.trace) :
        LET e == req.trace[k]
            route == router[e.layer]
        IN  /\ e.stage \in 1..3
            /\ e.stage = 1 =>
                  e.name = extractMiddleware(args.before, Str(route.method), Str(route.path)).v
            /\ e.stage = 2 =>
                  \/ e.name \in ActionNames
                  \/ \E i \in 1..Len(args.extensions) : args.extensions[i].function.v = e.name
            /\ e.stage = 3 =>
                  /\ e.name = extractMiddleware(args.after, Str(route.method), Str(route.path)).v
                  /\ IsDefaultRoute(route) => (Resolved /\ req.crbResult = <<req.db.result>>)
            /\ e.stage > 1 =>
                  /\ k > 1
                  /\ req.trace[k - 1].layer = e.layer
                  /\ req.trace[k - 1].stage = e.stage - 1

\* C3's case: a before-handler, the List action and an after-handler have run.
C3_Witness ==
    /\ Len(req.trace) = 3
    /\ req.trace[1].name = "bNext"
    /\ req.trace[2].name = "getAll"
    /\ req.trace[3].name = "aSend"
    /\ req.fin = "responded"

\* C4: when the data-access call of a default action fails, the failure is
\* forwarded as an error with status 400 and the failure's message, nothing is
\* sent, the call was made once, and no handler runs after the action.
C4_FailureIs400 ==
    req.db.state = "rejected" =>
        /\ req.fin = "error"
        /\ req.err = << Err("400", "CastError") >>
        /\ req.sent = << >>
        /\ req.db.calls = 1
        /\ req.trace[Len(req.trace)].name \in ActionNames

\* a descriptor the claim calls invalid: a method outside get, post, put,
\* delete, a path that is not a string, or a handler that is not callable
BadDescriptor(d) ==
    \/ d.method \notin {Str("get"), Str("post"), Str("put"), Str("delete")}
    \/ d.route.t # "string"
    \/ d.function.t # "function"
HasBadDescriptor(a) ==
    \/ \E i \in 1..Len(a.extensions) : BadDescriptor(a.extensions[i])
    \/ \E i \in 1..Len(a.before) : BadDescriptor(a.before[i])
    \/ \E i \in 1..Len(a.after) : BadDescriptor(a.after[i])

\* C5: a buildRoutes call whose lists hold an invalid descriptor, in any list
\* at any position, throws "Invalid Route object" and registers no route.
C5_InvalidRegistersNothing ==
    (built # "no" /\ HasBadDescriptor(args)) =>
        /\ built = "Invalid Route object"
        /\ router = << >>
        /\ req = NoReq

\* C5's case: valid extension and first after-descriptor, the second
\* after-descriptor invalid; the call threw and nothing is registered.
C5_Witness ==
    /\ built = "Invalid Route object"
    /\ Len(args.extensions) = 1 /\ ~BadDescriptor(args.extensions[1])
    /\ Len(args.after) = 2 /\ ~BadDescriptor(args.after[1]) /\ BadDescriptor(args.after[2])
    /\ router = << >>

\* the routes of the stack that belong to extension i / to default slot d
ExtensionRoutes(i) ==
    {j \in 1..Len(router) :
        /\ router[j].method = args.extensions[i].method.v
        /\ router[j].path = args.extensions[i].route.v
        /\ \E k \in 1..Len(router[j].stack) : router[j].stack[k] = args.extensions[i].function}
DefaultRoutes(d) ==
    {j \in 1..Len(router) :
        \E k \in 1..Len(router[j].stack) :
            IsAction(router[j].stack[k]) /\ router[j].stack[k].v = DefaultSlots[d].action}

\* C6: an extension with the method and path of a default slot is registered
\* before that default route, a request to that method and path goes to the
\* extension's route first, and the default action runs only if the
\* extension's handler passed the request on with next(); when the extension's
\* handler answers, the default action never runs.
C6_ExtensionOverrides ==
    built = "returned" =>
        \A i \in 1..Len(args.extensions), d \in 1..Len(DefaultSlots) :
            (/\ args.extensions[i].method = Str(DefaultSlots[d].method)
             /\ args.extensions[i].route = Str(DefaultSlots[d].route)) =>
                /\ ExtensionRoutes(i) # {}
                /\ \A j \in ExtensionRoutes(i), k \in DefaultRoutes(d) : j < k
                /\ (/\ req.method = DefaultSlots[d].method
                    /\ req.pc # "none"
                    /\ PathMatches(DefaultSlots[d].route, req.url)) =>
                        /\ req.layer > 0
                        /\ req.trace # << >> => req.trace[1].layer \in ExtensionRoutes(i)
                        /\ \A k \in 1..Len(req.trace) :
                              req.trace[k].name = DefaultSlots[d].action =>
                                  /\ Behaviour(args.extensions[i].function.v) = "next"
                                  /\ \E m \in 1..(k - 1) :
                                        req.trace[m].name = args.extensions[i].function.v
                        /\ \A k \in 1..Len(req.sent) :
                              req.sent[k].by = DefaultSlots[d].action =>
                                  Behaviour(args.extensions[i].function.v) = "next"

\* C6's case: get /all is declared as an extension, and a GET /all request was
\* answered by the extension's handler.
C6_Witness ==
    /\ args.extensions = << Route(Str("get"), Str("/all"), Fn("xSend")) >>
    /\ req.method = "get" /\ req.url = "/all"
    /\ req.fin = "responded"
    /\ req.sent = << [by |-> "xSend", body |-> Text] >>
    /\ req.db.calls = 0

\* a List request has been answered: the array that went out, the array the
\* query resolved with, and the numeric value of a digit-string parameter
ListAnswered ==
    /\ req.method = "get" /\ req.url = "/all"
    /\ Resolved
    /\ req.fin = "responded"
Returned == req.sent[1].body.items
Matched == req.db.result.items
Present(p) == req.query[p].t = "string"
NatParam(p) == Present(p) /\ AllDigits(req.query[p].s)
\* the natural number a string of digits writes
RECURSIVE DecimalValue(_)
DecimalValue(s) ==
    IF s = << >> THEN 0
    ELSE 10 * DecimalValue(SubSeq(s, 1, Len(s) - 1)) + DigitValue(s[Len(s)])
ParamValue(p) == DecimalValue(req.query[p].s)
Min(a, b) == IF a <= b THEN a ELSE b

\* C7: with _start = s and _end = e both given as natural numbers, s <= e, the
\* answer holds the elements at zero-based positions s..e of the matched array:
\* e - s + 1 of them when the array reaches position e, fewer otherwise; and
\* X-Total-Count is the length of the matched array before slicing.
C7_InclusiveRange ==
    (ListAnswered /\ NatParam("_start") /\ NatParam("_end")
        /\ ParamValue("_start") <= ParamValue("_end")) =>
        LET n == Len(Matched)
            s == ParamValue("_start")
            e == ParamValue("_end")
        IN  /\ req.header = <<n>>
            /\ Returned = SubSeq(Matched, s + 1, Min(e + 1, n))
            /\ n > e => Len(Returned) = e - s + 1
            /\ n <= e => Len(Returned) < e - s + 1

\* C7's case: _start=1, _end=2 on twelve matched documents answers with the
\* two documents at positions 1 and 2 and X-Total-Count 12.
C7_Witness ==
    /\ ListAnswered
    /\ req.query["_start"] = QStr(<<"1">>) /\ req.query["_end"] = QStr(<<"2">>)
    /\ Len(Matched) = MaxDocs
    /\ Returned = <<Matched[2], Matched[3]>>
    /\ req.header = <<MaxDocs>>

\* C8: with exactly one of _start and _end given, nothing is sliced: the answer
\* is the whole matched array and X-Total-Count is its length.
C8_OneBoundNoSlice ==
    (ListAnswered /\ (Present("_start") # Present("_end"))) =>
        /\ Returned = Matched
        /\ req.header = <<Len(Matched)>>

\* C8's case: only _start=1 is given and all three matched documents go out.
C8_Witness ==
    /\ ListAnswered
    /\ req.query["_start"] = QStr(<<"1">>) /\ ~Present("_end")
    /\ Len(Matched) = 3
    /\ Returned = Matched
    /\ req.header = <<3>>

\* C9: the documented request color=red, _sort=name, _order=ASC, _start=0,
\* _end=10 is answered with the first 10 matched documents.
C9_FirstTen ==
    (/\ ListAnswered
     /\ req.query["color"] = QStr(<<"r", "e", "d">>)
     /\ req.query["_sort"] = QStr(<<"n", "a", "m", "e">>)
     /\ req.query["_order"] = QStr(<<"A", "S", "C">>)
     /\ req.query["_start"] = QStr(<<"0">>)
     /\ req.query["_end"] = QStr(<<"1", "0">>)) =>
        Returned = SubSeq(Matched, 1, Min(10, Len(Matched)))

\* the List action has got past building its filter and called Resource.find
Finding == req.db.op = "find"
\* the List action has started
ListStarted == \E k \in 1..Len(req.trace) : req.trace[k].name = "getAll"
BoolWords == {<<"t", "r", "u", "e">>, <<"f", "a", "l", "s", "e">>}

\* C10 as stated: every parameter naming a model field becomes a boolean
\* filter when it is "true" or "false" in any letter case, a numeric filter
\* when it is purely numeric, and a case-insensitive pattern otherwise.
C10_AsStated ==
    ListStarted =>
        /\ Finding
        /\ \A f \in filters(req.query) :
              LET val == req.query[f].s
              IN  req.db.filter[f] =
                    IF toLowerCase(val) \in BoolWords
                    THEN [t |-> "boolean", b |-> (toLowerCase(val) = <<"t", "r", "u", "e">>)]
                    ELSE IF AllDigits(val) THEN Number(DecimalValue(val))
                    ELSE [t |-> "regexp", source |-> val, flags |-> "i"]

\* C10: a parameter naming a model field becomes a numeric filter when
\* Number(value) is not NaN (digit strings, and also the empty or blank string,
\* exponent literals, hexadecimal literals, signed fractions, and Infinity for
\* a literal beyond the largest double); otherwise a boolean filter when it is "true" or
\* "false" in any letter case; otherwise, where the action has the ObjectId
\* branch, the unchanged string when it is a valid ObjectId; otherwise a
\* case-insensitive pattern, and then only if the pattern compiles: when it
\* does not, the error is forwarded and Resource.find is never called.
C10_FilterTyping ==
    ListStarted =>
        LET bad == {f \in filters(req.query) :
                        /\ isNaN(req.query[f].s)
                        /\ toLowerCase(req.query[f].s) \notin BoolWords
                        /\ ~(impl = "part_001" /\ ObjectIdIsValid(req.query[f].s))
                        /\ RegExpThrows(req.query[f].s)}
        IN  IF bad # {}
            THEN /\ req.db.calls = 0
                 /\ req.fin = "error"
                 /\ req.sent = << >>
            ELSE /\ Finding
                 /\ DOMAIN req.db.filter = filters(req.query)
                 /\ \A f \in filters(req.query) :
                      LET val == req.query[f].s
                      IN  req.db.filter[f] =
                            IF AllDigits(val) THEN Number(DecimalValue(val))
                            ELSE IF Trim(val) = << >> THEN Number(0)
                            ELSE IF val = <<"1", "e", "1">> THEN Number(10)
                            ELSE IF val = <<"0", "x", "1", "0">> THEN Number(16)
                            ELSE IF val = <<"-", "1", ".", "5">> THEN Double(TRUE, <<3>>, -1)
                            ELSE IF val = <<"1", "e", "4", "0", "0">> THEN Infinity
                            ELSE IF toLowerCase(val) \in BoolWords
                            THEN [t |-> "boolean",
                                  b |-> (toLowerCase(val) = <<"t", "r", "u", "e">>)]
                            ELSE IF impl = "part_001" /\ Len(val) = 12
                            THEN [t |-> "objectid", s |-> val]
                            ELSE [t |-> "regexp", source |-> val, flags |-> "i"]

\* C10's case: color=TRUE reached Resource.find as the boolean true.
C10_Witness ==
    /\ Finding
    /\ req.query["color"] = QStr(<<"T", "R", "U", "E">>)
    /\ req.db.filter = [f \in {"color"} |-> [t |-> "boolean", b |-> TRUE]]

\* the handler a list of descriptors resolves to for a route: the function of
\* the first descriptor with the route's method and path, else the pass-through
ResolvedFrom(list, route) ==
    LET idx == {i \in 1..Len(list) :
                    list[i].method = Str(route.method) /\ list[i].route = Str(route.path)}
    IN  IF idx = {} THEN emptyMiddleware
        ELSE list[CHOOSE i \in idx : \A j \in idx : i <= j].function

\* C15: every route buildRoutes registered has exactly three stages: the handler
\* resolved from `before` for the route's own method and path, then the action
\* (an extension's handler or a default action), then the handler resolved from
\* `after` for the route's own method and path.
C15_ThreeStages ==
    built = "returned" =>
        \A j \in 1..Len(router) :
            LET route == router[j]
            IN  /\ Len(route.stack) = 3
                /\ route.stack[1] = ResolvedFrom(args.before, route)
                /\ \/ IsAction(route.stack[2])
                   \/ \E i \in 1..Len(args.extensions) :
                         args.extensions[i].function = route.stack[2]
                /\ route.stack[3] = ResolvedFrom(args.after, route)

\* the request is on a default route whose after-handler, if one is declared,
\* answers, and its data-access call is under way (so the before-handler continued)
QueryingWithAnsweringAfter ==
    /\ req.pc = "querying"
    /\ LET afterMiddleware == ResolvedFrom(args.after, router[req.layer])
       IN  afterMiddleware = emptyMiddleware \/ Behaviour(afterMiddleware.v) = "send"
Terminal == req.fin \in {"responded", "error"}

\* C17: a request to a default route whose before-handler continued and whose
\* after-handler, if any, answers reaches a terminal outcome (a response sent or
\* an error forwarded) once its data-access call has completed.
C17_Terminates == QueryingWithAnsweringAfter ~> Terminal

\* the name of the handler the caller declared in before for the route's own
\* method and path (the first such descriptor), emptyMiddleware when there is none
BeforeHandlerOf(route) ==
    LET own == {i \in 1..Len(args.before) :
                    /\ args.before[i].method = Str(route.method)
                    /\ args.before[i].route = Str(route.path)}
    IN  IF own = {} THEN "emptyMiddleware"
        ELSE args.before[CHOOSE i \in own : \A j \in own : i <= j].function.v

\* C19: when the before-handler declared for a route answers or forwards an
\* error instead of calling next(), a request that enters the route goes no
\* further than that handler: it is the only handler of the route that starts,
\* no data-access call is made, nothing is stored in req.crbResult, and no
\* response comes from the action or the after-handler.
C19_BeforeStops ==
    \A k \in 1..Len(req.trace) :
        LET e == req.trace[k]
            before == BeforeHandlerOf(router[e.layer])
        IN  Behaviour(before) \in {"send", "error"} =>
                /\ e.name = before
                /\ k = Len(req.trace)
                /\ req.pc = "done"
                /\ req.db.calls = 0
                /\ req.crbResult = << >>
                /\ \A m \in 1..Len(req.sent) : req.sent[m].by = before
                /\ Behaviour(before) = "error" => (req.sent = << >> /\ req.fin = "error")

\* C19's case: the before-handler of get /all answered a GET /all request on
\* the default route, with an after-handler declared for the same slot.
C19_Witness ==
    /\ args.before = << Route(Str("get"), Str("/all"), Fn("bSend")) >>
    /\ args.after = << Route(Str("get"), Str("/all"), Fn("aSend")) >>
    /\ args.extensions = << >>
    /\ req.url = "/all"
    /\ req.trace = << [layer |-> 1, stage |-> 1, name |-> "bSend"] >>
    /\ req.sent = << [by |-> "bSend", body |-> Text] >>
    /\ req.db.calls = 0
    /\ req.fin = "responded"

\* a default action has started for the request
ActionStarted == \E k \in 1..Len(req.trace) : req.trace[k].name \in ActionNames

\* C12: with a resourceModifier configured, a default action calls it once
\* before its data-access call and makes that call on the handle the
\* resourceModifier returned, not on the base handle.
C12_ModifiedHandle ==
    (args.resourceModifier = Fn("mScope") /\ req.db.calls > 0) =>
        /\ req.db.modifierCalls = 1
        /\ req.db.handle = "Scoped"

\* the synchronous part of the action throws: the configured resourceModifier
\* throws where it is called, or a List filter value is not a valid pattern
ThrowsInHandler ==
    \/ impl = "part_001" /\ args.resourceModifier = Fn("mThrow")
    \/ /\ req.trace[Len(req.trace)].name = "getAll"
       /\ \E f \in filters(req.query) :
             /\ req.query[f].s = <<"(", "r", "e", "d">>

\* C16: an exception thrown synchronously in a default action's body is caught
\* there and handed to next(err) exactly once: nothing escapes, the action
\* sends nothing, makes no data-access call, and the after-handler is not run.
C16_SyncThrowForwarded ==
    (ActionStarted /\ ThrowsInHandler) =>
        /\ req.pc = "done"
        /\ req.fin = "error"
        /\ Len(req.err) = 1
        /\ req.sent = << >>
        /\ req.db.calls = 0
        /\ req.crbResult = << >>
        /\ req.trace[Len(req.trace)].name \in ActionNames

\* C16's case: the resourceModifier threw inside the update action, with
\* nothing sent and the error forwarded.
C16_Witness ==
    /\ impl = "part_001"
    /\ args.resourceModifier = Fn("mThrow")
    /\ req.method = "put"
    /\ req.trace # << >>
    /\ req.trace[Len(req.trace)].name = "update"
    /\ req.err = << RawError("modifier failed") >>
    /\ req.sent = << >>

\* C14: extractMiddleware returns the handler of the first descriptor of the
\* list whose method and route both equal the arguments, never a later one,
\* and the no-op pass-through handler, which only calls next(), when no
\* descriptor matches.
C14_FirstMatch ==
    call.result # << >> =>
        /\ call.result[1] = ResolvedFrom(call.routes, [method |-> call.method, path |-> call.route])
        /\ Behaviour(emptyMiddleware.v) = "next"

\* the routes of a collection are the extensions of `a`, in order, followed by
\* the five default routes, and nothing else
OnlyRoutesOf(stack, a) ==
    /\ Len(stack) = Len(a.extensions) + Len(DefaultSlots)
    /\ \A j \in 1..Len(a.extensions) :
          /\ stack[j].method = a.extensions[j].method.v
          /\ stack[j].path = a.extensions[j].route.v
          /\ \E k \in 1..Len(stack[j].stack) : stack[j].stack[k] = a.extensions[j].function
    /\ \A d \in 1..Len(DefaultSlots) :
          LET route == stack[Len(a.extensions) + d]
          IN  /\ route.method = DefaultSlots[d].method
              /\ route.path = DefaultSlots[d].route
              /\ \E k \in 1..Len(route.stack) :
                    IsAction(route.stack[k]) /\ route.stack[k].v = DefaultSlots[d].action

\* C13: buildRoutes keeps no state between calls: after a second call, the
\* collection the first call returned still holds only the first call's
\* extensions and the five default routes, and the second collection holds only
\* the second call's.
C13_NoStateBetweenCalls ==
    /\ built = "returned" => OnlyRoutesOf(router, args)
    /\ again.built = "returned" => OnlyRoutesOf(again.router, again.args)

\* request r was answered with the result of its own data-access call: by its
\* after-handler out of r.crbResult when one is declared, else by the action
OwnResultSent(r) ==
    (r.db.state = "resolved" /\ r.fin = "responded") =>
        /\ Len(r.sent) = 1
        /\ r.sent[1].body = r.db.result
        /\ r.sent[1].by \in ActionNames \/ r.crbResult = << r.db.result >>

\* C18: with two requests in flight whose data-access calls complete in any
\* order, each request's after-handler finds in req.crbResult the result of
\* its own call, and each result goes out on its own request's response.
C18_OwnResult ==
    /\ OwnResultSent(req)
    /\ OwnResultSent(other)
    /\ \A r \in {req, other} : r.crbResult # << >> => r.crbResult = << r.db.result >>

\* C18's case: both requests went to get /single/:id while the other was in
\* flight, their calls resolved with different results, and each after-handler
\* sent its own.
C18_Witness ==
    /\ req.url = "/single/7" /\ other.url = "/single/7"
    /\ req.sent = << [by |-> "aSend", body |-> Doc] >>
    /\ other.sent = << [by |-> "aSend", body |-> Null] >>
    /\ req.crbResult = << Doc >>
    /\ other.crbResult = << Null >>

\* the document an answered request came back with
Answer(k) == done[k].sent[1].body
IsRequest(k, method, url) ==
    /\ Len(done) >= k
    /\ done[k].method = method /\ done[k].url = url
    /\ done[k].fin = "responded"
\* the first k requests answered are the first k of: create, list, update the
\* created document, delete it, list
Sequence(k) ==
    /\ k >= 1 => IsRequest(1, "post", "/")
    /\ k >= 2 => IsRequest(2, "get", "/all")
    /\ k >= 3 => IsRequest(3, "put", "/7") /\ Answer(1).items[1]["_id"] = ParamsId("/7")
    /\ k >= 4 => IsRequest(4, "delete", "/7")
    /\ k >= 5 => IsRequest(5, "get", "/all")

\* C11: starting from an empty collection, POST / answers with the posted
\* fields and an identifier; the following GET /all answers with exactly that
\* record and X-Total-Count 1; PUT /:id then answers with the same identifier,
\* the given fields changed and the others unchanged; and after DELETE /:id,
\* GET /all answers with an empty array and X-Total-Count 0.
C11_CreateListUpdateDeleteList ==
    /\ Sequence(1) =>
          /\ Answer(1).kind = "doc"
          /\ DOMAIN Answer(1).items[1] = DOMAIN done[1].body \cup {"_id"}
          /\ \A f \in DOMAIN done[1].body : Answer(1).items[1][f] = done[1].body[f]
    /\ Sequence(2) =>
          /\ Answer(2).items = << Answer(1).items[1] >>
          /\ done[2].header = <<1>>
    /\ Sequence(3) =>
          LET created == Answer(1).items[1]
              updated == Answer(3).items[1]
          IN  /\ Answer(3).kind = "doc"
              /\ DOMAIN updated = DOMAIN created \cup DOMAIN done[3].body
              /\ \A f \in DOMAIN updated :
                    updated[f] = IF f \in DOMAIN done[3].body THEN done[3].body[f]
                                 ELSE created[f]
    /\ Sequence(5) =>
          /\ Answer(5).items = << >>
          /\ Answer(5).kind = "array"
          /\ done[5].header = <<0>>

\* C11's case: the whole sequence was answered, the widget created red and
\* updated to blue.
C11_Witness ==
    /\ Sequence(5)
    /\ done[1].body = Widget
    /\ Answer(3).items[1]["color"] = "blue"
    /\ Answer(3).items[1]["name"] = "widget"
    /\ store.docs = << >>

====
